---- MODULE Spec2Model ----
(***************************************************************************)
(* Model of the getTranslation action of the GenStudio translation         *)
(* extension (src/actions/getTranslation.js with src/actions/utils.js).    *)
(*                                                                         *)
(* One invocation of main(params) is modelled as a sequential process: pc  *)
(* is the position in main / getTranslation, the backend is an environment *)
(* that answers every outbound call nondeterministically.                  *)
(*                                                                         *)
(* JavaScript values are tagged records so that values of different types  *)
(* can be compared: primitives carry a field t, plain objects are records  *)
(* whose fields are the object's properties.                               *)
(***************************************************************************)
EXTENDS Integers, Sequences, FiniteSets, TLC

(***************************************************************************)
(* JavaScript values                                                       *)
(***************************************************************************)
Undefined == [t |-> "undefined"]
Null == [t |-> "null"]
Num(n) == [t |-> "number", v |-> n]
\* a string is the sequence of its units (characters, or coarser tokens)
Str(units) == [t |-> "string", v |-> units]
Arr(elems) == [t |-> "array", v |-> elems]

\* typeof, with "array" and "null" told apart from the other objects
TypeOf(x) == IF "t" \in DOMAIN x THEN x.t ELSE "object"

IsString(x) == TypeOf(x) = "string"
IsArray(x) == TypeOf(x) = "array"

\* JavaScript truthiness
Truthy(x) ==
  CASE TypeOf(x) = "undefined" -> FALSE
    [] TypeOf(x) = "null" -> FALSE
    [] TypeOf(x) = "number" -> x.v # 0
    [] TypeOf(x) = "string" -> x.v # <<>>
    [] OTHER -> TRUE

\* property read: a property the object does not have reads as undefined
Get(obj, key) == IF key \in DOMAIN obj THEN obj[key] ELSE Undefined

Range(s) == {s[i] : i \in DOMAIN s}

(***************************************************************************)
(* String.prototype.toLowerCase / toUpperCase                                 *)
(***************************************************************************)
UpperToLower ==
  [c \in {"A", "B", "D", "E", "G", "I", "L", "N", "O", "P", "R", "U", "Z"} |->
     CASE c = "A" -> "a" [] c = "B" -> "b" [] c = "D" -> "d" [] c = "E" -> "e"
       [] c = "G" -> "g" [] c = "I" -> "i" [] c = "L" -> "l" [] c = "N" -> "n"
       [] c = "O" -> "o" [] c = "P" -> "p" [] c = "R" -> "r" [] c = "U" -> "u"
       [] c = "Z" -> "z"]

LowerToUpper ==
  [c \in {"d", "e", "f", "h", "n", "r", "t"} |->
     CASE c = "d" -> "D" [] c = "e" -> "E" [] c = "f" -> "F" [] c = "h" -> "H"
       [] c = "n" -> "N" [] c = "r" -> "R" [] c = "t" -> "T"]

toUpperCase(s) ==
  Str([i \in DOMAIN s.v |->
         IF s.v[i] \in DOMAIN LowerToUpper THEN LowerToUpper[s.v[i]] ELSE s.v[i]])

toLowerCase(s) ==
  Str([i \in DOMAIN s.v |->
         IF s.v[i] \in DOMAIN UpperToLower THEN UpperToLower[s.v[i]] ELSE s.v[i]])

\* String.prototype.includes for a needle that is one unit of the haystack
includes(s, unit) == \E i \in DOMAIN s.v : s.v[i] = unit

(***************************************************************************)
(* utils.errorResponse                                                     *)
(***************************************************************************)
errorResponse(statusCode, message) ==
  [error |-> [statusCode |-> Num(statusCode), body |-> [error |-> message]]]

(***************************************************************************)
(* Inputs of one invocation: the params object handed to main              *)
(***************************************************************************)
\* bounds of the enumerated inputs
MaxTargets == 2
MaxUnset == 2

\* TRANSLATION_SERVICE values: absent, empty, the four identifiers in several
\* spellings, an unknown identifier, and a value that is not a string
ServiceValues ==
  { Undefined,
    Str(<<>>),
    Str(<<"a", "z", "u", "r", "e">>),
    Str(<<"A", "z", "u", "r", "e">>),
    Str(<<"g", "o", "o", "g", "l", "e">>),
    Str(<<"G", "O", "O", "G", "L", "E">>),
    Str(<<"o", "p", "e", "n", "a", "i">>),
    Str(<<"O", "p", "e", "n", "A", "I">>),
    Str(<<"d", "e", "e", "p", "l">>),
    Str(<<"D", "e", "e", "p", "L">>),
    Str(<<"b", "i", "n", "g">>),
    Num(5) }

GoogleVars == <<"GOOGLE_TRANSLATE_API_KEY", "GOOGLE_CLOUD_PROJECT_ID">>
OpenAIVars == <<"OPENAI_API_KEY", "OPENAI_MODEL">>
AzureVars == <<"AZURE_OPENAI_API_KEY", "AZURE_OPENAI_ENDPOINT",
               "AZURE_OPENAI_API_VERSION", "AZURE_OPENAI_DEPLOYMENT_NAME">>
DeepLVars == <<"DEEPL_API_KEY">>

ConfigKeys ==
  Range(GoogleVars) \cup Range(OpenAIVars) \cup Range(AzureVars) \cup Range(DeepLVars)

SetValue == Str(<<"s", "e", "c", "r", "e", "t">>)

\* configuration bags: every key set, except at most MaxUnset keys of one
\* backend's group, each of them absent or the empty string
ConfigBags ==
  { bag \in [ConfigKeys -> {Undefined, Str(<<>>), SetValue}] :
      LET unset == {k \in ConfigKeys : bag[k] # SetValue}
      IN /\ Cardinality(unset) <= MaxUnset
         /\ \E group \in {Range(GoogleVars), Range(OpenAIVars),
                          Range(AzureVars), Range(DeepLVars)} :
               unset \subseteq group }

\* locales, character by character
FR == Str(<<"f", "r", "-", "F", "R">>)
TH == Str(<<"t", "h", "-", "T", "H">>)
EN == Str(<<"e", "n", "-", "U", "S">>)
DE == Str(<<"d", "e", "-", "D", "E">>)
Locales == {FR, TH, EN}

SourceValues == {Undefined, Str(<<>>), EN}

TargetValues ==
  {Undefined, FR} \cup
  {Arr(ls) : ls \in UNION {[1..n -> Locales] : n \in 0..MaxTargets}}

\* request items: TranslationItem { id, messages: [{ id, value }] }
Message(id, value) == [id |-> id, value |-> value]
Item(id, messages) == [id |-> id, messages |-> messages]

OneItem == <<Item("1", <<Message("m1", Str(<<"Buy now">>))>>)>>
TwoItems ==
  <<Item("1", <<Message("m1", Str(<<"Buy now">>)), Message("m2", Str(<<"Sale">>))>>),
    Item("2", <<Message("m3", Str(<<"New">>))>>)>>

ItemsValues == {Undefined, Arr(<<>>), Arr(OneItem), Arr(TwoItems)}

\* the translation request carried by params, as fields or as a JSON body
RequestFields ==
  [sourceLocale : SourceValues, targetLocales : TargetValues, items : ItemsValues]

\* __ow_body: absent, or a string that is the JSON text of a request, the
\* JSON text "null", or text that is not JSON
JSONText(value) == [t |-> "string", v |-> <<"json">>, json |-> value]
NotJSONText == [t |-> "string", v |-> <<"not json">>]

\* JSON.stringify of an object: properties whose value is undefined are dropped
JSONStringify(obj) ==
  JSONText([k \in {key \in DOMAIN obj : obj[key] # Undefined} |-> obj[k]])

\* JSON.parse: the parsed value, or a SyntaxError
JSONParse(text) ==
  IF "json" \in DOMAIN text
    THEN [threw |-> FALSE, value |-> text.json]
    ELSE [threw |-> TRUE]

NoFields == [sourceLocale |-> Undefined, targetLocales |-> Undefined, items |-> Undefined]

AsFields(r) == [__ow_body |-> Undefined] @@ r
AsBody(r) == [__ow_body |-> JSONStringify(r)] @@ NoFields

ValidRequest == [sourceLocale |-> EN, targetLocales |-> Arr(<<FR, TH>>), items |-> Arr(TwoItems)]

AllRequests ==
  {AsFields(r) : r \in RequestFields} \cup {AsBody(r) : r \in RequestFields} \cup
  { [__ow_body |-> NotJSONText] @@ NoFields,
    [__ow_body |-> JSONText(Null)] @@ NoFields,
    [__ow_body |-> Str(<<>>)] @@ ValidRequest }

\* the requests tried together with an incomplete configuration bag
ProbeRequests ==
  { AsFields(ValidRequest),
    AsBody(ValidRequest),
    AsFields([ValidRequest EXCEPT !.items = Arr(<<>>)]),
    AsFields([ValidRequest EXCEPT !.sourceLocale = Undefined]),
    AsBody([ValidRequest EXCEPT !.targetLocales = Arr(<<>>)]),
    [__ow_body |-> NotJSONText] @@ NoFields }

AllSet == [k \in ConfigKeys |-> SetValue]

\* the TRANSLATION_SERVICE values tried with every request: absent, not a
\* string, and the identifiers in lower case
PlainServices ==
  {svc \in ServiceValues :
     ~IsString(svc) \/ (svc # Str(<<>>) /\ toLowerCase(svc) = svc)}

\* every request with a complete configuration and a plain service value;
\* the probe requests with every service value and every configuration bag
ParamsValues ==
  { [TRANSLATION_SERVICE |-> svc] @@ bag @@ req :
      svc \in PlainServices, bag \in {AllSet}, req \in AllRequests } \cup
  { [TRANSLATION_SERVICE |-> svc] @@ bag @@ req :
      svc \in ServiceValues, bag \in ConfigBags, req \in ProbeRequests }

(***************************************************************************)
(* State of one invocation                                                 *)
(***************************************************************************)
VARIABLES
  params,              \* the argument of main
  pc,                  \* position in main / getTranslation
  requiredVars,        \* validateEnvironment: requiredVars of the selected service
  request,             \* main: { sourceLocale, targetLocales, items } once extracted
  translationClient,   \* getTranslation: { type, client } once created
  results,             \* getTranslation: results
  li,                  \* index of targetLocale in targetLocales (for-of, line 424)
  ii,                  \* itemIndex + 1 (lines 433, 470)
  mi,                  \* msgIndex + 1 (lines 437, 474)
  translatedItems,     \* per-locale accumulator (lines 431, 468)
  translatedMessages,  \* per-item accumulator (lines 435, 472)
  calls,               \* outbound backend calls issued so far with their answers, in order
  fatalAt,             \* position in targetLocales whose processing raised a fatal error, 0 if none
  response,            \* the value main returns, undefined while running
  run,                 \* 1 for an invocation, 2 for a second invocation after it
  first                \* what the first invocation was given and did, once it is over

vars == <<run, first, params, pc, requiredVars, request, translationClient, results, li, ii, mi,
          translatedItems, translatedMessages, calls, fatalAt, response>>

NoResults == [l \in {} |-> <<>>]

Init ==
  /\ params \in ParamsValues
  /\ pc = "validateEnvironment"
  /\ requiredVars = <<>>
  /\ request = Undefined
  /\ translationClient = Undefined
  /\ results = NoResults
  /\ li = 0
  /\ ii = 0
  /\ mi = 0
  /\ translatedItems = <<>>
  /\ translatedMessages = <<>>
  /\ calls = <<>>
  /\ fatalAt = 0
  /\ response = Undefined
  /\ run = 1
  /\ first = Undefined

(***************************************************************************)
(* validateEnvironment (lines 78-128)                                      *)
(***************************************************************************)
AzureId == Str(<<"a", "z", "u", "r", "e">>)
GoogleId == Str(<<"g", "o", "o", "g", "l", "e">>)
OpenAIId == Str(<<"o", "p", "e", "n", "a", "i">>)
DeepLId == Str(<<"d", "e", "e", "p", "l">>)

\* params.TRANSLATION_SERVICE || 'azure'
ServiceOf(p) == IF Truthy(p.TRANSLATION_SERVICE) THEN p.TRANSLATION_SERVICE ELSE AzureId

\* Array.prototype.join of an array of one-unit strings
RECURSIVE join(_, _)
join(names, sep) ==
  IF names = <<>> THEN <<>>
  ELSE IF Len(names) = 1 THEN <<names[1]>>
  ELSE <<names[1], sep>> \o join(Tail(names), sep)

\* variant: only the first missing variable is reported
RECURSIVE FirstMissingVar(_, _)
FirstMissingVar(p, names) ==
  IF names = <<>> THEN <<>>
  ELSE IF ~Truthy(p[names[1]]) THEN <<names[1]>>
  ELSE FirstMissingVar(p, Tail(names))

\* requiredVars.filter(varName => !params[varName]) (line 118)
RECURSIVE MissingVars(_, _)
MissingVars(p, names) ==
  IF names = <<>> THEN <<>>
  ELSE (IF ~Truthy(p[names[1]]) THEN <<names[1]>> ELSE <<>>) \o MissingVars(p, Tail(names))

\* variant: an unknown identifier falls back to the default backend
RequiredVarsOrDefault(service) ==
  LET lower == toLowerCase(service)
  IN CASE lower = GoogleId -> [supported |-> TRUE, vars |-> GoogleVars]
       [] lower = OpenAIId -> [supported |-> TRUE, vars |-> OpenAIVars]
       [] lower = DeepLId -> [supported |-> TRUE, vars |-> DeepLVars]
       [] OTHER -> [supported |-> TRUE, vars |-> AzureVars]

\* the switch of lines 84-100: the required variables, or no case matched
RequiredVarsOf(service) ==
  LET lower == toLowerCase(service)
  IN CASE lower = GoogleId -> [supported |-> TRUE, vars |-> GoogleVars]
       [] lower = OpenAIId -> [supported |-> TRUE, vars |-> OpenAIVars]
       [] lower = AzureId -> [supported |-> TRUE, vars |-> AzureVars]
       [] lower = DeepLId -> [supported |-> TRUE, vars |-> DeepLVars]
       [] OTHER -> [supported |-> FALSE, vars |-> <<>>]

\* the value validateEnvironment returns (null when valid), or that it threw:
\* service.toLowerCase is not a function when service is not a string
validateEnvironment(p) ==
  LET service == ServiceOf(p)
      required == RequiredVarsOf(service)
      missing == MissingVars(p, required.vars)
  IN IF ~IsString(service) THEN [threw |-> TRUE]
     ELSE IF ~required.supported
       THEN [threw |-> FALSE, requiredVars |-> <<>>,
             value |-> errorResponse(500,
                         Str(<<"Unsupported translation service: ">> \o service.v))]
     ELSE IF Len(missing) > 0
       THEN [threw |-> FALSE, requiredVars |-> required.vars,
             value |-> errorResponse(500,
                         Str(<<"Missing required environment variables for ">>
                             \o service.v \o <<": ">> \o join(missing, ", ")))]
     ELSE [threw |-> FALSE, requiredVars |-> required.vars, value |-> Null]

(***************************************************************************)
(* extractParameters (lines 136-156)                                       *)
(***************************************************************************)
\* variant: the structured fields are read even when a body is given
extractParametersIgnoringBody(p) ==
  [sourceLocale |-> p.sourceLocale,
   targetLocales |-> p.targetLocales,
   items |-> p.items]

extractParameters(p) ==
  IF Truthy(p.__ow_body)
    THEN LET parsed == JSONParse(p.__ow_body)
         IN IF parsed.threw \/ parsed.value = Null
              \* JSON.parse threw, or reading body.sourceLocale of null threw
              THEN [error |-> errorResponse(400, Str(<<"Invalid JSON in request body">>))]
              ELSE [sourceLocale |-> Get(parsed.value, "sourceLocale"),
                    targetLocales |-> Get(parsed.value, "targetLocales"),
                    items |-> Get(parsed.value, "items")]
    ELSE [sourceLocale |-> p.sourceLocale,
          targetLocales |-> p.targetLocales,
          items |-> p.items]

(***************************************************************************)
(* validateParameters (lines 166-180)                                      *)
(***************************************************************************)
validateParameters(sourceLocale, targetLocales, items) ==
  IF ~Truthy(sourceLocale)
    THEN errorResponse(400, Str(<<"sourceLocale is required">>))
  ELSE IF ~IsArray(targetLocales) \/ Len(targetLocales.v) = 0
    THEN errorResponse(400, Str(<<"targetLocales must be a non-empty array">>))
  ELSE IF ~IsArray(items) \/ Len(items.v) = 0
    THEN errorResponse(400, Str(<<"items must be a non-empty array">>))
  ELSE Null

(***************************************************************************)
(* createTranslationClient (lines 187-230)                                 *)
(***************************************************************************)
\* variant: the switch compares the identifier as given, in its own letter case
createTranslationClientCaseSensitive(p) ==
  LET service == ServiceOf(p)
  IN CASE service = GoogleId ->
            [threw |-> FALSE,
             value |-> [type |-> GoogleId,
                        client |-> [key |-> p.GOOGLE_TRANSLATE_API_KEY,
                                    projectId |-> p.GOOGLE_CLOUD_PROJECT_ID]]]
       [] service = DeepLId ->
            [threw |-> FALSE,
             value |-> [type |-> DeepLId,
                        client |-> [apiKey |-> p.DEEPL_API_KEY,
                                    baseURL |-> "https://api.deepl.com/v2"]]]
       [] service = OpenAIId ->
            [threw |-> FALSE,
             value |-> [type |-> OpenAIId,
                        client |-> [apiKey |-> p.OPENAI_API_KEY, timeout |-> 30000]]]
       [] service = AzureId ->
            [threw |-> FALSE,
             value |-> [type |-> AzureId,
                        client |-> [apiKey |-> p.AZURE_OPENAI_API_KEY,
                                    endpoint |-> p.AZURE_OPENAI_ENDPOINT,
                                    apiVersion |-> p.AZURE_OPENAI_API_VERSION,
                                    timeout |-> 30000]]]
       [] OTHER -> [threw |-> TRUE]

createTranslationClient(p) ==
  LET service == ServiceOf(p)
      lower == toLowerCase(service)
  IN CASE lower = GoogleId ->
            [threw |-> FALSE,
             value |-> [type |-> GoogleId,
                        client |-> [key |-> p.GOOGLE_TRANSLATE_API_KEY,
                                    projectId |-> p.GOOGLE_CLOUD_PROJECT_ID]]]
       [] lower = DeepLId ->
            [threw |-> FALSE,
             value |-> [type |-> DeepLId,
                        client |-> [apiKey |-> p.DEEPL_API_KEY,
                                    baseURL |->
                                      IF IsString(p.DEEPL_API_KEY) /\ includes(p.DEEPL_API_KEY, ":fx")
                                        THEN "https://api-free.deepl.com/v2"
                                        ELSE "https://api.deepl.com/v2"]]]
       [] lower = OpenAIId ->
            [threw |-> FALSE,
             value |-> [type |-> OpenAIId,
                        client |-> [apiKey |-> p.OPENAI_API_KEY, timeout |-> 30000]]]
       [] lower = AzureId ->
            [threw |-> FALSE,
             value |-> [type |-> AzureId,
                        client |-> [apiKey |-> p.AZURE_OPENAI_API_KEY,
                                    endpoint |-> p.AZURE_OPENAI_ENDPOINT,
                                    apiVersion |-> p.AZURE_OPENAI_API_VERSION,
                                    timeout |-> 30000]]]
       [] OTHER -> [threw |-> TRUE]

(***************************************************************************)
(* main (lines 592-639), up to the call of getTranslation                  *)
(***************************************************************************)
Return(value) ==
  /\ response' = value
  /\ pc' = "done"

\* variant: the request is extracted and validated first, the configuration
\* only for a request that passes
ValidateEnvironmentAfterRequest ==
  /\ pc = "validateEnvironment"
  /\ LET paramResult == extractParameters(params)
         validationError ==
           IF "error" \in DOMAIN paramResult THEN paramResult.error
           ELSE validateParameters(paramResult.sourceLocale, paramResult.targetLocales,
                                   paramResult.items)
         envError == validateEnvironment(params)
     IN IF validationError # Null
          THEN /\ Return([statusCode |-> Get(validationError, "status"),
                          body |-> validationError])
               /\ UNCHANGED requiredVars
        ELSE IF envError.threw
          THEN /\ Return(errorResponse(500, Str(<<"Internal server error">>)))
               /\ UNCHANGED requiredVars
        ELSE /\ requiredVars' = envError.requiredVars
             /\ IF envError.value # Null
                  THEN Return([statusCode |-> envError.value.error.statusCode,
                               body |-> envError.value.error.body])
                  ELSE /\ pc' = "extractParameters"
                       /\ UNCHANGED response
  /\ UNCHANGED <<run, first, params, request, translationClient, results, li, ii, mi,
                 translatedItems, translatedMessages, calls, fatalAt>>

\* lines 600-606, and the catch of lines 635-638 when validateEnvironment throws
ValidateEnvironment ==
  /\ pc = "validateEnvironment"
  /\ LET envError == validateEnvironment(params)
     IN IF envError.threw
          THEN /\ Return(errorResponse(500, Str(<<"Internal server error">>)))
               /\ UNCHANGED requiredVars
          ELSE /\ requiredVars' = envError.requiredVars
               /\ IF envError.value # Null
                    THEN Return([statusCode |-> envError.value.error.statusCode,
                                 body |-> envError.value.error.body])
                    ELSE /\ pc' = "extractParameters"
                         /\ UNCHANGED response
  /\ UNCHANGED <<run, first, params, request, translationClient, results, li, ii, mi,
                 translatedItems, translatedMessages, calls, fatalAt>>

\* lines 608-616
ExtractParameters ==
  /\ pc = "extractParameters"
  /\ LET paramResult == extractParameters(params)
     IN IF "error" \in DOMAIN paramResult
          THEN /\ Return([statusCode |-> Get(paramResult.error, "status"),
                          body |-> paramResult.error])
               /\ UNCHANGED request
          ELSE /\ request' = paramResult
               /\ pc' = "validateParameters"
               /\ UNCHANGED response
  /\ UNCHANGED <<run, first, params, requiredVars, translationClient, results, li, ii, mi,
                 translatedItems, translatedMessages, calls, fatalAt>>

\* variant: the backend client is constructed before the request is validated
ValidateParametersAfterClient ==
  /\ pc = "validateParameters"
  /\ translationClient' = createTranslationClient(params).value
  /\ LET validationError ==
           validateParameters(request.sourceLocale, request.targetLocales, request.items)
     IN IF validationError # Null
          THEN Return([statusCode |-> Get(validationError, "status"),
                       body |-> validationError])
          ELSE /\ pc' = "getTranslation"
               /\ UNCHANGED response
  /\ UNCHANGED <<run, first, params, requiredVars, request, results, li, ii, mi,
                 translatedItems, translatedMessages, calls, fatalAt>>

\* lines 618-626: on success main calls getTranslation
ValidateParameters ==
  /\ pc = "validateParameters"
  /\ LET validationError ==
           validateParameters(request.sourceLocale, request.targetLocales, request.items)
     IN IF validationError # Null
          THEN Return([statusCode |-> Get(validationError, "status"),
                       body |-> validationError])
          ELSE /\ pc' = "getTranslation"
               /\ UNCHANGED response
  /\ UNCHANGED <<run, first, params, requiredVars, request, translationClient, results, li, ii, mi,
                 translatedItems, translatedMessages, calls, fatalAt>>

(***************************************************************************)
(* convertLocaleToLanguageCode (lines 239-242): locale.split('-')[0]       *)
(***************************************************************************)
RECURSIVE UpToSeparator(_, _)
UpToSeparator(units, sep) ==
  IF units = <<>> \/ units[1] = sep THEN <<>>
  ELSE <<units[1]>> \o UpToSeparator(Tail(units), sep)

convertLocaleToLanguageCode(locale) == Str(UpToSeparator(locale.v, "-"))

(***************************************************************************)
(* The backends: what an outbound call can answer                          *)
(***************************************************************************)
\* the text a backend gives for a text and a target language
Translated(text, lang) == Str(text.v \o <<" in ">> \o lang.v)

Threw(units) == [threw |-> TRUE, error |-> [message |-> Str(units)]]
Returned(value) == [threw |-> FALSE, value |-> value]

\* client.translate(text, languageCode) resolves to [translation], or rejects
GoogleReplies(text, languageCode) ==
  { Returned(<<Translated(text, languageCode)>>),
    Threw(<<"Request failed with status code 403">>) }

\* axios.post(`${baseURL}/translate`, { text: [text], target_lang }) resolves to
\* { data }, or rejects
DeepLReplies(text, languageCode) ==
  { Returned([data |-> [translations |-> Arr(<<[text |-> Translated(text, languageCode)]>>)]]),
    Returned([data |-> [translations |-> Arr(<<>>)]]),
    Returned([data |-> [message |-> Str(<<"ok">>)]]),
    Threw(<<"Request failed with status code 403">>),
    Threw(<<"Target language ", "not supported by DeepL">>) }

\* the items of a request, every message value translated
TranslateItems(items, lang) ==
  [i \in DOMAIN items |->
     Item(items[i].id,
          [m \in DOMAIN items[i].messages |->
             Message(items[i].messages[m].id,
                     Translated(items[i].messages[m].value, lang))])]

\* the same with the identifiers regenerated
RenameItems(items) ==
  [i \in DOMAIN items |->
     Item("x", [m \in DOMAIN items[i].messages |->
                  Message("y", items[i].messages[m].value)])]

ChatCompletion(content) == Returned([choices |-> Arr(<<[message |-> [content |-> content]]>>)])

\* client.chat.completions.create(...) resolves to a completion, or rejects
LLMReplies(targetLocale, items) ==
  LET good == TranslateItems(items, targetLocale)
  IN { Threw(<<"Connection error.">>),
       Returned([choices |-> Arr(<<>>)]),
       Returned([id |-> Str(<<"chatcmpl">>)]),
       ChatCompletion(Null),
       ChatCompletion(NotJSONText),
       ChatCompletion(JSONText(Null)),
       ChatCompletion(JSONText([items |-> Arr(good)])),
       ChatCompletion(JSONText([targetLocale |-> targetLocale])),
       ChatCompletion(JSONText([targetLocale |-> targetLocale, items |-> Str(<<"none">>)])),
       ChatCompletion(JSONText([targetLocale |-> targetLocale, items |-> Arr(good)])),
       ChatCompletion(JSONText([targetLocale |-> DE, items |-> Arr(good)])),
       ChatCompletion(JSONText([targetLocale |-> targetLocale, items |-> Arr(<<>>)])),
       ChatCompletion(JSONText([targetLocale |-> targetLocale, items |-> Arr(SubSeq(good, 1, 1))])),
       ChatCompletion(JSONText([targetLocale |-> targetLocale, items |-> Arr(RenameItems(good))])) }

(***************************************************************************)
(* callGoogleTranslateAPI (lines 253-267), callDeepLTranslationAPI         *)
(* (lines 276-305): what the call returns or throws, given the backend's   *)
(* answer                                                                  *)
(***************************************************************************)
\* variant: a failed call yields the empty text instead of throwing
callGoogleTranslateAPISwallowing(reply) ==
  IF reply.threw THEN Returned(Str(<<>>)) ELSE Returned(reply.value[1])

callGoogleTranslateAPI(reply) ==
  IF reply.threw THEN reply ELSE Returned(reply.value[1])

\* variant: a reply without a first translation yields undefined instead of
\* throwing
callDeepLTranslationAPILenient(reply) ==
  IF reply.threw THEN reply
  ELSE LET translations == Get(reply.value.data, "translations")
       IN IF ~Truthy(translations) \/ Len(translations.v) = 0
            THEN Returned(Undefined)
            ELSE Returned(translations.v[1].text)

callDeepLTranslationAPI(reply) ==
  IF reply.threw THEN reply
  ELSE LET translations == Get(reply.value.data, "translations")
       IN IF ~Truthy(translations) \/ Len(translations.v) = 0
            THEN Threw(<<"Invalid response structure from DeepL API">>)
            ELSE Returned(translations.v[1].text)

(***************************************************************************)
(* processLLMTranslationResponse (lines 383-400)                           *)
(***************************************************************************)
processLLMTranslationResponse(parsedResponse, targetLocale) ==
  IF parsedResponse = Null
    THEN [threw |-> TRUE]      \* reading a property of null
  ELSE IF ~Truthy(Get(parsedResponse, "targetLocale")) \/ ~Truthy(Get(parsedResponse, "items"))
    THEN [threw |-> FALSE,
          value |-> [error |-> errorResponse(500,
                       Str(<<"Invalid response format from translation service">>))]]
  ELSE IF ~IsArray(parsedResponse.items)
    THEN [threw |-> TRUE]      \* translatedItems.map is not a function
  ELSE LET translatedItemsOfReply == parsedResponse.items.v
       IN [threw |-> FALSE,
           value |-> [items |->
             [i \in DOMAIN translatedItemsOfReply |->
                [id |-> translatedItemsOfReply[i].id,
                 messages |->
                   [m \in DOMAIN translatedItemsOfReply[i].messages |->
                      [id |-> translatedItemsOfReply[i].messages[m].id,
                       value |-> translatedItemsOfReply[i].messages[m].value]]]]]]

(***************************************************************************)
(* getTranslation (lines 410-585) and the rest of main (lines 626-634)     *)
(***************************************************************************)
\* variant: the status is read from a statusCode property
MainReturnStatusCode(translationResponse) ==
  Return([statusCode |-> Get(translationResponse, "statusCode"),
          body |-> translationResponse])

\* main, lines 628-634: the value getTranslation returned, wrapped
MainReturn(translationResponse) ==
  Return([statusCode |-> IF Get(translationResponse, "status") = Num(200)
                           THEN Num(200)
                           ELSE Get(translationResponse, "status"),
          body |-> translationResponse])

\* variant: the result is stored under the language code of the locale
AssignUnderLanguageCode(obj, key, value) ==
  [k \in DOMAIN obj \cup {convertLocaleToLanguageCode(key)} |->
     IF k = convertLocaleToLanguageCode(key) THEN value ELSE obj[k]]

\* results[targetLocale] = items
Assign(obj, key, value) ==
  [k \in DOMAIN obj \cup {key} |-> IF k = key THEN value ELSE obj[k]]

\* variant: the source locale is iterated ahead of the target locales
TargetLocaleAfterSource == (<<request.sourceLocale>> \o request.targetLocales.v)[li]

\* targetLocale of the for-of of line 424
TargetLocale == request.targetLocales.v[li]
CurrentItem == request.items.v[ii]
\* variant: the messages of an item are taken from the last to the first
CurrentMessageBackwards == CurrentItem.messages[Len(CurrentItem.messages) - mi + 1]

CurrentMessage == CurrentItem.messages[mi]

\* one outbound call: where in the loops it was issued, the target it named,
\* the text or the request it carried, and what the backend answered
Call(api, target, sent, reply) ==
  [api |-> api, pos |-> li, item |-> ii, msg |-> mi, target |-> target,
   sent |-> sent, reply |-> reply]

\* the backend answers a call of a second invocation as it answered the same
\* call of the first
AnswersAsBefore(call) ==
  IF run = 1 THEN TRUE
  ELSE IF Len(calls) >= Len(first.calls) THEN TRUE
  ELSE LET before == first.calls[Len(calls) + 1]
       IN [before EXCEPT !.reply = call.reply] = call => before = call

\* variant: the error is returned together with the locales completed so far
LocaleCatchWithResults(error) ==
  /\ fatalAt' = li
  /\ MainReturn([results |-> results] @@ errorResponse(500,
       Str(<<"Translation failed for locale ">> \o request.targetLocales.v[li].v
           \o <<": ">> \o error.message.v)))

\* variant: the failure of a locale is noted and the loop goes on with the next
LocaleCatchAndContinue(error) ==
  /\ fatalAt' = li
  /\ pc' = "locales"
  /\ response' = response

\* the catch of lines 562-565
LocaleCatch(error) ==
  /\ fatalAt' = li
  /\ MainReturn(errorResponse(500,
       Str(<<"Translation failed for locale ">> \o TargetLocale.v \o <<": ">>
           \o error.message.v)))

TypeError == [message |-> Str(<<"TypeError">>)]

\* lines 417-421, and the catch of lines 581-584 when the constructor throws
CreateTranslationClient ==
  /\ pc = "getTranslation"
  /\ LET created == createTranslationClient(params)
     IN IF created.threw
          THEN /\ MainReturn(errorResponse(500,
                    Str(<<"Failed to process translation request">>)))
               /\ UNCHANGED <<translationClient, li>>
          ELSE /\ translationClient' = created.value
               /\ li' = 1
               /\ pc' = "locales"
               /\ UNCHANGED response
  /\ UNCHANGED <<run, first, params, requiredVars, request, results, ii, mi,
                 translatedItems, translatedMessages, calls, fatalAt>>

\* head of the for-of over targetLocales (line 424); after the last locale,
\* lines 568-580
LocalesLoop ==
  /\ pc = "locales"
  /\ IF li > Len(request.targetLocales.v)
       THEN /\ MainReturn([status |-> Num(200), results |-> results])
            /\ UNCHANGED <<ii, translatedItems>>
       ELSE /\ IF translationClient.type = GoogleId
                 THEN pc' = "google_items" /\ ii' = 1 /\ translatedItems' = <<>>
               ELSE IF translationClient.type = DeepLId
                 THEN pc' = "deepl_items" /\ ii' = 1 /\ translatedItems' = <<>>
               ELSE pc' = "llm" /\ UNCHANGED <<ii, translatedItems>>
            /\ UNCHANGED response
  /\ UNCHANGED <<run, first, params, requiredVars, request, translationClient, results, li, mi,
                 translatedMessages, calls, fatalAt>>

\* Google: head of the loop over items (line 433); after the last item,
\* lines 458-460
GoogleItems ==
  /\ pc = "google_items"
  /\ IF ii <= Len(request.items.v)
       THEN /\ translatedMessages' = <<>>
            /\ mi' = 1
            /\ pc' = "google_messages"
            /\ UNCHANGED <<results, li>>
       ELSE /\ results' = Assign(results, TargetLocale, translatedItems)
            /\ li' = li + 1
            /\ pc' = "locales"
            /\ UNCHANGED <<translatedMessages, mi>>
  /\ UNCHANGED <<run, first, params, requiredVars, request, translationClient, ii,
                 translatedItems, calls, fatalAt, response>>

\* Google: one message (lines 437-450); after the last message, lines 452-455
GoogleMessages ==
  /\ pc = "google_messages"
  /\ IF mi <= Len(CurrentItem.messages)
       THEN LET languageCode == convertLocaleToLanguageCode(TargetLocale)
            IN \E reply \in GoogleReplies(CurrentMessage.value, languageCode) :
                 LET outcome == callGoogleTranslateAPI(reply)
                 IN /\ AnswersAsBefore(Call(GoogleId, languageCode, CurrentMessage.value, reply))
                    /\ calls' = Append(calls, Call(GoogleId, languageCode, CurrentMessage.value, reply))
                    /\ IF outcome.threw
                         THEN /\ LocaleCatch(outcome.error)
                              /\ UNCHANGED <<translatedMessages, mi>>
                         ELSE /\ translatedMessages' =
                                   Append(translatedMessages,
                                          Message(CurrentMessage.id, outcome.value))
                              /\ mi' = mi + 1
                              /\ UNCHANGED <<pc, response, fatalAt>>
                    /\ UNCHANGED <<translatedItems, ii>>
       ELSE /\ translatedItems' =
                 Append(translatedItems, Item(CurrentItem.id, translatedMessages))
            /\ ii' = ii + 1
            /\ pc' = "google_items"
            /\ UNCHANGED <<translatedMessages, mi, calls, fatalAt, response>>
  /\ UNCHANGED <<run, first, params, requiredVars, request, translationClient, results, li>>

\* DeepL: head of the loop over items (line 470); after the last item,
\* lines 505-512
DeepLItems ==
  /\ pc = "deepl_items"
  /\ IF ii <= Len(request.items.v)
       THEN /\ translatedMessages' = <<>>
            /\ mi' = 1
            /\ pc' = "deepl_messages"
            /\ UNCHANGED <<results, li>>
       ELSE /\ results' = IF Len(translatedItems) > 0
                            THEN Assign(results, TargetLocale, translatedItems)
                            ELSE results
            /\ li' = li + 1
            /\ pc' = "locales"
            /\ UNCHANGED <<translatedMessages, mi>>
  /\ UNCHANGED <<run, first, params, requiredVars, request, translationClient, ii,
                 translatedItems, calls, fatalAt, response>>

\* variant: no error is taken for a language support error
IsLanguageSupportErrorNever(error) == FALSE

\* variant: a refusal is taken for a language support error only by the first
\* invocation
IsLanguageSupportErrorOnce(error) ==
  run = 1 /\ includes(error.message, "not supported by DeepL")

\* line 487: error.message.includes('not supported by DeepL')
IsLanguageSupportError(error) == includes(error.message, "not supported by DeepL")

\* lines 496-502: after the message loop of an item
DeepLItemEnd ==
  /\ translatedItems' = IF Len(translatedMessages) > 0
                          THEN Append(translatedItems,
                                      Item(CurrentItem.id, translatedMessages))
                          ELSE translatedItems
  /\ ii' = ii + 1
  /\ pc' = "deepl_items"

\* variant: the message is left out and the loop goes on with the next message
DeepLNextMessage ==
  /\ mi' = mi + 1
  /\ UNCHANGED <<translatedMessages, translatedItems, ii, pc>>

\* the break of line 489: out of the message loop, on to lines 496-502
DeepLBreak ==
  /\ DeepLItemEnd
  /\ UNCHANGED <<translatedMessages, mi>>

\* DeepL: one message (lines 474-494); the break of line 489 and the end of
\* the message loop both continue at lines 496-502
DeepLMessages ==
  /\ pc = "deepl_messages"
  /\ IF mi <= Len(CurrentItem.messages)
       THEN LET languageCode == toUpperCase(convertLocaleToLanguageCode(TargetLocale))
            IN \E reply \in DeepLReplies(CurrentMessage.value, languageCode) :
                 LET outcome == callDeepLTranslationAPI(reply)
                 IN /\ AnswersAsBefore(Call(DeepLId, languageCode, CurrentMessage.value, reply))
                    /\ calls' = Append(calls, Call(DeepLId, languageCode, CurrentMessage.value, reply))
                    /\ IF ~outcome.threw
                         THEN /\ translatedMessages' =
                                   Append(translatedMessages,
                                          Message(CurrentMessage.id, outcome.value))
                              /\ mi' = mi + 1
                              /\ UNCHANGED <<pc, response, fatalAt, translatedItems, ii>>
                       ELSE IF IsLanguageSupportError(outcome.error)
                         THEN /\ DeepLBreak
                              /\ UNCHANGED <<response, fatalAt>>
                       ELSE /\ LocaleCatch(outcome.error)
                            /\ UNCHANGED <<translatedMessages, mi, translatedItems, ii>>
       ELSE /\ DeepLItemEnd
            /\ UNCHANGED <<translatedMessages, mi, calls, fatalAt, response>>
  /\ UNCHANGED <<run, first, params, requiredVars, request, translationClient, results, li>>

\* OpenAI / Azure OpenAI: one locale (lines 514-558)
\* variant: the locale is tried again in place of returning the error
LLMTryAgain(message) ==
  UNCHANGED <<fatalAt, response, pc, results, li>>

LLMReturnError(message) ==
  /\ fatalAt' = li
  /\ MainReturn(errorResponse(500, message))
  /\ UNCHANGED <<results, li>>

\* variant: the message names the locale in place of the backend
APICallFailedMessageNamingLocale(type, apiError) ==
  Str(TargetLocale.v \o <<" API call failed: ">> \o apiError.message.v)

\* variant: the items are stored under the locale the reply echoes
ResultsKeyEchoed(parsedResponse) == parsedResponse.targetLocale

\* line 557: results[targetLocale], the targetLocale of the for-of of line 424
ResultsKey(parsedResponse) == TargetLocale

\* line 527: `${type} API call failed: ${apiError.message}`
APICallFailedMessage(type, apiError) ==
  Str(type.v \o <<" API call failed: ">> \o apiError.message.v)

\* the user message of lines 332 and 371
LLMUserContent ==
  JSONStringify([sourceLocale |-> request.sourceLocale,
                 targetLocale |-> TargetLocale,
                 items |-> request.items])

LLMLocale ==
  /\ pc = "llm"
  /\ \E reply \in LLMReplies(TargetLocale, request.items.v) :
       /\ AnswersAsBefore(Call(translationClient.type, TargetLocale,
                               LLMUserContent, reply))
       /\ calls' = Append(calls, Call(translationClient.type, TargetLocale,
                                      LLMUserContent, reply))
       /\ IF reply.threw
            THEN LLMReturnError(APICallFailedMessage(translationClient.type, reply.error))
          ELSE IF ~IsArray(Get(reply.value, "choices"))
            THEN LocaleCatch(TypeError) /\ UNCHANGED <<results, li>>
          ELSE LET choices == reply.value.choices.v
                   rawResponse == IF Len(choices) = 0 THEN Undefined
                                  ELSE choices[1].message.content
               IN IF ~Truthy(rawResponse)
                    THEN LLMReturnError(Str(<<"Empty response from translation service">>))
                  ELSE LET parsed == JSONParse(rawResponse)
                       IN IF parsed.threw
                            THEN LLMReturnError(
                                   Str(<<"Invalid JSON response from translation service">>))
                          ELSE LET processResult ==
                                     processLLMTranslationResponse(parsed.value, TargetLocale)
                               IN IF processResult.threw
                                    THEN LocaleCatch(TypeError) /\ UNCHANGED <<results, li>>
                                  ELSE IF "error" \in DOMAIN processResult.value
                                    THEN /\ fatalAt' = li
                                         /\ MainReturn(processResult.value.error)
                                         /\ UNCHANGED <<results, li>>
                                  ELSE /\ results' = Assign(results, ResultsKey(parsed.value),
                                                            processResult.value.items)
                                       /\ li' = li + 1
                                       /\ pc' = "locales"
                                       /\ UNCHANGED <<response, fatalAt>>
  /\ UNCHANGED <<run, first, params, requiredVars, request, translationClient, ii, mi,
                 translatedItems, translatedMessages>>

Next ==
  \/ ValidateEnvironment
  \/ ExtractParameters
  \/ ValidateParameters
  \/ CreateTranslationClient
  \/ LocalesLoop
  \/ GoogleItems
  \/ GoogleMessages
  \/ DeepLItems
  \/ DeepLMessages
  \/ LLMLocale

Spec == Init /\ [][Next]_vars

(***************************************************************************)
(* Two invocations of main, one after the other, against a backend that    *)
(* answers the calls of the second as it answered those of the first       *)
(***************************************************************************)
RequestKeys == {"sourceLocale", "targetLocales", "items"}

\* the request carried by params, handed over in the other inbound shape:
\* structured fields as the JSON text of them, a JSON body as fields
OtherShape(p) ==
  IF ~Truthy(p.__ow_body)
    THEN {AsBody([k \in RequestKeys |-> p[k]]) @@ p}
  ELSE IF "json" \in DOMAIN p.__ow_body /\ p.__ow_body.json # Null
    THEN {AsFields([k \in RequestKeys |-> Get(p.__ow_body.json, k)]) @@ p}
  ELSE {}

\* the locales main has dealt with: those with an entry in results, those
\* passed without an entry, and the one whose processing failed
Outcome ==
  IF li = 0
    THEN [completed |-> {}, skipped |-> {}, failed |-> {}]
    ELSE [completed |-> DOMAIN results,
          skipped |-> {request.targetLocales.v[p] :
                         p \in {q \in DOMAIN request.targetLocales.v :
                                  q # fatalAt /\ (q < li \/ (pc = "done" /\ q <= li))}}
                        \ DOMAIN results,
          failed |-> IF fatalAt = 0 THEN {} ELSE {request.targetLocales.v[fatalAt]}]

\* main is invoked again once it has returned: every variable of the model is
\* a local of main or getTranslation, the module keeps nothing between calls
Again(p) ==
  /\ pc = "done"
  /\ run = 1
  /\ run' = 2
  /\ first' = [params |-> params, calls |-> calls, response |-> response,
               outcome |-> Outcome]
  /\ params' = p
  /\ pc' = "validateEnvironment"
  /\ requiredVars' = <<>>
  /\ request' = Undefined
  /\ translationClient' = Undefined
  /\ results' = NoResults
  /\ li' = 0
  /\ ii' = 0
  /\ mi' = 0
  /\ translatedItems' = <<>>
  /\ translatedMessages' = <<>>
  /\ calls' = <<>>
  /\ fatalAt' = 0
  /\ response' = Undefined

\* the second invocation is given the params of the first
Rerun == Again(params)

\* the second invocation is given the same request in the other inbound shape
RerunOtherShape == \E p \in OtherShape(params) : Again(p)

NextTwoRuns ==
  \/ ValidateEnvironment
  \/ ExtractParameters
  \/ ValidateParameters
  \/ CreateTranslationClient
  \/ LocalesLoop
  \/ GoogleItems
  \/ GoogleMessages
  \/ DeepLItems
  \/ DeepLMessages
  \/ LLMLocale
  \/ Rerun

\* the inputs tried twice: those of Init whose TRANSLATION_SERVICE is absent,
\* an identifier in lower case or not a string, whose configuration is
\* complete or is rejected, and whose request, when it can be read, has a
\* source locale that is absent or en-US, target locales among fr-FR and
\* th-TH, and no items or the two-item list
InitTwoRuns ==
  /\ Init
  /\ \/ ~IsString(params.TRANSLATION_SERVICE)
     \/ /\ params.TRANSLATION_SERVICE # Str(<<>>)
        /\ toLowerCase(params.TRANSLATION_SERVICE) = params.TRANSLATION_SERVICE
  /\ LET envError == validateEnvironment(params)
     IN \/ params \in {[TRANSLATION_SERVICE |-> params.TRANSLATION_SERVICE]
                         @@ AllSet @@ params}
        \/ envError.threw
        \/ envError.value # Null
  /\ LET paramResult == extractParameters(params)
     IN \/ "error" \in DOMAIN paramResult
        \/ /\ paramResult.sourceLocale \in {Undefined, EN}
           /\ paramResult.items \in {Arr(<<>>), Arr(TwoItems)}
           /\ IsArray(paramResult.targetLocales)
                => Range(paramResult.targetLocales.v) \subseteq {FR, TH}

SpecTwoRuns == InitTwoRuns /\ [][NextTwoRuns]_vars

\* the same with the request of the first invocation given as structured
\* fields and that of the second as a JSON body
InitTwoShapes == InitTwoRuns /\ ~Truthy(params.__ow_body)

NextTwoShapes ==
  \/ ValidateEnvironment
  \/ ExtractParameters
  \/ ValidateParameters
  \/ CreateTranslationClient
  \/ LocalesLoop
  \/ GoogleItems
  \/ GoogleMessages
  \/ DeepLItems
  \/ DeepLMessages
  \/ LLMLocale
  \/ RerunOtherShape

SpecTwoShapes == InitTwoShapes /\ [][NextTwoShapes]_vars

\* the invocations that reach getTranslation: those of Init with a complete
\* configuration of the selected backend and a valid request, given as
\* structured fields
InitTranslation ==
  /\ Init
  /\ ~Truthy(params.__ow_body)
  /\ LET envError == validateEnvironment(params)
     IN ~envError.threw /\ envError.value = Null
  /\ validateParameters(params.sourceLocale, params.targetLocales, params.items) = Null

SpecTranslation == InitTranslation /\ [][Next]_vars

(***************************************************************************)
(* Properties                                                              *)
(***************************************************************************)
Done == pc = "done"

\* the response carries a results map
CarriesResults == Done /\ "body" \in DOMAIN response /\ "results" \in DOMAIN response.body

\* the response carries an error, at the top level or in its body
CarriesError ==
  /\ Done
  /\ \/ "error" \in DOMAIN response
     \/ "body" \in DOMAIN response /\ "error" \in DOMAIN response.body

\* the error envelope { statusCode: number, body: { error: string } }
IsErrorEnvelope(r) ==
  /\ DOMAIN r = {"statusCode", "body"}
  /\ TypeOf(r.statusCode) = "number"
  /\ r.statusCode.v \in {400, 500}
  /\ DOMAIN r.body = {"error"}
  /\ IsString(r.body.error)

\* configuration validation passes for params
ConfigurationPasses ==
  LET envError == validateEnvironment(params)
  IN ~envError.threw /\ envError.value = Null

\* the request carried by params can be read and passes validation
RequestPasses ==
  LET paramResult == extractParameters(params)
  IN /\ "error" \notin DOMAIN paramResult
     /\ validateParameters(paramResult.sourceLocale, paramResult.targetLocales,
                           paramResult.items) = Null

RequestedTargets == Range(request.targetLocales.v)

\* C1: whenever main answers with a results map, every key of the map is one
\* of the requested targetLocales, whatever the backend answered.
C1_KeysAreRequestedTargets ==
  CarriesResults => DOMAIN response.body.results \subseteq RequestedTargets

\* a results map with a completed locale, and a requested locale left out
C1_Witness ==
  /\ CarriesResults
  /\ DOMAIN response.body.results # {}
  /\ DOMAIN response.body.results # RequestedTargets

\* C2 as stated: the keys of the results map never include sourceLocale,
\* whatever the contents of targetLocales.
C2_Original ==
  CarriesResults => request.sourceLocale \notin DOMAIN response.body.results

\* C2 amended: the keys of the results map never include sourceLocale unless
\* sourceLocale is itself one of the requested targetLocales.
C2_SourceOnlyIfRequested ==
  (CarriesResults /\ request.sourceLocale \notin RequestedTargets)
    => request.sourceLocale \notin DOMAIN response.body.results

C2_Witness ==
  /\ CarriesResults
  /\ request.sourceLocale \notin RequestedTargets
  /\ DOMAIN response.body.results # {}

\* C3: a response never carries both results and an error, and once a locale
\* has failed fatally the response carries no results map, even when earlier
\* locales had completed.
C3_NoPartialResultsWithError ==
  Done => /\ ~(CarriesResults /\ CarriesError)
          /\ fatalAt # 0 => (~CarriesResults /\ CarriesError)
          /\ CarriesResults => fatalAt = 0

\* the second locale failed after the first had completed
C3_Witness ==
  /\ Done
  /\ fatalAt = 2
  /\ DOMAIN results # {}
  /\ ~CarriesResults

\* C4 as stated: every error outcome of main is returned in the envelope
\* { statusCode: 400 or 500, body: { error: message string } }, either as the
\* returned value or, in the form utils.errorResponse documents as ready to be
\* returned from main, as the value of its error property.
C4_ErrorEnvelope ==
  (Done /\ ~CarriesResults)
    => \/ IsErrorEnvelope(response)
       \/ DOMAIN response = {"error"} /\ IsErrorEnvelope(response.error)

\* C5: when configuration and request validation pass and no locale fails
\* fatally, main returns { statusCode: 200, body: { status: 200, results } },
\* results mapping locale strings to sequences of items; skipped locales do
\* not change this.
C5_SuccessEnvelope ==
  (Done /\ ConfigurationPasses /\ RequestPasses /\ fatalAt = 0)
    => /\ response = [statusCode |-> Num(200),
                      body |-> [status |-> Num(200), results |-> results]]
       /\ \A locale \in DOMAIN response.body.results :
            /\ IsString(locale)
            /\ \A i \in DOMAIN response.body.results[locale] :
                 DOMAIN response.body.results[locale][i] = {"id", "messages"}

\* the skip-tolerant case: a requested locale was skipped, another completed
C5_Witness ==
  /\ Done
  /\ ConfigurationPasses /\ RequestPasses /\ fatalAt = 0
  /\ translationClient.type = DeepLId
  /\ response.statusCode = Num(200)
  /\ DOMAIN response.body.results # {}
  /\ DOMAIN response.body.results # RequestedTargets

ValidationMessages ==
  { Str(<<"sourceLocale is required">>),
    Str(<<"targetLocales must be a non-empty array">>),
    Str(<<"items must be a non-empty array">>),
    Str(<<"Invalid JSON in request body">>) }

\* C6 as stated: with the selected backend configured, a request with empty
\* items, missing sourceLocale or empty targetLocales is answered with HTTP 400
\* and the validation message, whichever backend is selected.
C6_Validation400 ==
  (Done /\ ConfigurationPasses /\ request # Undefined /\ ~RequestPasses)
    => /\ Get(response, "statusCode") = Num(400)
       /\ Get(response.body, "error") \in ValidationMessages

\* an empty items array, with the backend configured
C6_Witness ==
  /\ Done
  /\ ConfigurationPasses
  /\ request # Undefined
  /\ request.items = Arr(<<>>)
  /\ Truthy(request.sourceLocale)
  /\ IsArray(request.targetLocales) /\ Len(request.targetLocales.v) > 0

\* the message of an error response, wherever the response nests it
ErrorMessageOf(r) ==
  LET inBody == Get(Get(r, "body"), "error")
  IN IF IsString(inBody) THEN inBody
     ELSE IF TypeOf(inBody) = "object" THEN Get(Get(inBody, "body"), "error")
     ELSE Undefined

EndsInValidationError == Done /\ ErrorMessageOf(response) \in ValidationMessages

\* C7: an execution of main that ends in a request validation error has
\* constructed no backend client and has issued no backend call.
C7_ValidationBeforeBackend ==
  EndsInValidationError => (translationClient = Undefined /\ calls = <<>>)

\* a validation error for a request read from a configured invocation
C7_Witness ==
  /\ EndsInValidationError
  /\ ConfigurationPasses
  /\ ErrorMessageOf(response) = Str(<<"items must be a non-empty array">>)

\* the required configuration keys of each backend, as the claim lists them
RequiredSet(backend) ==
  CASE backend = GoogleId -> {"GOOGLE_TRANSLATE_API_KEY", "GOOGLE_CLOUD_PROJECT_ID"}
    [] backend = OpenAIId -> {"OPENAI_API_KEY", "OPENAI_MODEL"}
    [] backend = AzureId -> {"AZURE_OPENAI_API_KEY", "AZURE_OPENAI_ENDPOINT",
                             "AZURE_OPENAI_API_VERSION", "AZURE_OPENAI_DEPLOYMENT_NAME"}
    [] backend = DeepLId -> {"DEEPL_API_KEY"}

\* the backend each TRANSLATION_SERVICE value stands for, spelled out
SelectedBackend ==
  LET svc == params.TRANSLATION_SERVICE
  IN CASE svc \in {Undefined, Str(<<>>), Str(<<"a", "z", "u", "r", "e">>),
                   Str(<<"A", "z", "u", "r", "e">>)} -> AzureId
       [] svc \in {Str(<<"g", "o", "o", "g", "l", "e">>),
                   Str(<<"G", "O", "O", "G", "L", "E">>)} -> GoogleId
       [] svc \in {Str(<<"o", "p", "e", "n", "a", "i">>),
                   Str(<<"O", "p", "e", "n", "A", "I">>)} -> OpenAIId
       [] svc \in {Str(<<"d", "e", "e", "p", "l">>),
                   Str(<<"D", "e", "e", "p", "L">>)} -> DeepLId
       [] OTHER -> Undefined

MissingKeys ==
  IF SelectedBackend = Undefined THEN {}
  ELSE {k \in RequiredSet(SelectedBackend) : params[k] \in {Undefined, Str(<<>>)}}

\* C8: when a required key of the selected backend is absent or empty, the
\* request ends, before any locale is processed and before any call, with
\* { statusCode: 500, body: { error } } whose message names every missing key.
C8_ConfigurationError ==
  (MissingKeys # {} /\ pc # "validateEnvironment")
    => /\ Done
       /\ Get(response, "statusCode") = Num(500)
       /\ IsString(Get(Get(response, "body"), "error"))
       /\ \A k \in MissingKeys : includes(response.body.error, k)
       /\ calls = <<>>
       /\ translationClient = Undefined
       /\ li = 0

\* two keys of the selected backend are missing, one absent and one empty
C8_Witness ==
  /\ Done
  /\ Cardinality(MissingKeys) = 2
  /\ \E k \in MissingKeys : params[k] = Undefined
  /\ \E k \in MissingKeys : params[k] = Str(<<>>)

\* C9: a TRANSLATION_SERVICE identifier that is none of azure, google, openai,
\* deepl in any letter case ends the request with statusCode 500 and the
\* message 'Unsupported translation service: <identifier>', no backend call
\* made, whatever the request.
C9_UnsupportedService ==
  (IsString(params.TRANSLATION_SERVICE) /\ Truthy(params.TRANSLATION_SERVICE)
     /\ SelectedBackend = Undefined /\ pc # "validateEnvironment")
    => /\ Done
       /\ response = [statusCode |-> Num(500),
                      body |-> [error |-> Str(<<"Unsupported translation service: ">>
                                              \o params.TRANSLATION_SERVICE.v)]]
       /\ calls = <<>>
       /\ translationClient = Undefined

\* an unknown identifier together with a request that is itself faulty
C9_Witness ==
  /\ Done
  /\ params.TRANSLATION_SERVICE = Str(<<"b", "i", "n", "g">>)
  /\ params.__ow_body = NotJSONText

\* C10: for every spelling of a supported identifier, and for an absent or
\* empty TRANSLATION_SERVICE (azure), validateEnvironment checks the required
\* variables of that backend and createTranslationClient builds the client of
\* that same backend.
C10_SameBackendSelected ==
  SelectedBackend # Undefined
    => /\ pc # "validateEnvironment" => Range(requiredVars) = RequiredSet(SelectedBackend)
       /\ translationClient # Undefined => translationClient.type = SelectedBackend
       /\ (ConfigurationPasses /\ RequestPasses
             /\ pc \notin {"validateEnvironment", "extractParameters",
                           "validateParameters", "getTranslation"})
            => translationClient # Undefined

\* a client built for an identifier given in another letter case
C10_Witness ==
  /\ params.TRANSLATION_SERVICE = Str(<<"D", "e", "e", "p", "L">>)
  /\ translationClient # Undefined
  /\ translationClient.type = DeepLId
  /\ requiredVars = DeepLVars

(***************************************************************************)
(* The call log read back: what the answers of the backend determine       *)
(***************************************************************************)
\* the positions of targetLocales that hold a locale
PositionsOf(locale) ==
  {p \in DOMAIN request.targetLocales.v : request.targetLocales.v[p] = locale}

\* the calls issued while the locale at a position was processed
CallsAt(p) == {k \in DOMAIN calls : calls[k].pos = p}

\* the locale at a position has been processed to its end, or to its failure
Processed(p) == p < li \/ (Done /\ p <= li)

\* the answer by which DeepL refuses a target language
LanguageNotSupported == Threw(<<"Target language ", "not supported by DeepL">>)

\* the elements of a sequence at the indexes kept, in their order
RECURSIVE Pick(_, _)
Pick(seq, keep) ==
  IF seq = <<>> THEN <<>>
  ELSE Pick(SubSeq(seq, 1, Len(seq) - 1), keep)
         \o (IF Len(seq) \in keep THEN <<seq[Len(seq)]>> ELSE <<>>)

\* the calls for one message of one item at a position that DeepL answered
\* with a translation
TranslatedBy(p, i, m) ==
  {k \in CallsAt(p) : /\ calls[k].item = i /\ calls[k].msg = m
                       /\ ~callDeepLTranslationAPI(calls[k].reply).threw}

\* the messages of item i that DeepL translated at position p
AnsweredMessages(p, i) ==
  LET messages == request.items.v[i].messages
  IN Pick([m \in DOMAIN messages |->
             IF TranslatedBy(p, i, m) = {} THEN Undefined
             ELSE Message(messages[m].id,
                          callDeepLTranslationAPI(
                            calls[CHOOSE k \in TranslatedBy(p, i, m) : TRUE].reply).value)],
          {m \in DOMAIN messages : TranslatedBy(p, i, m) # {}})

\* the items DeepL translated at position p: those with a translated message
AnsweredItems(p) ==
  Pick([i \in DOMAIN request.items.v |->
          Item(request.items.v[i].id, AnsweredMessages(p, i))],
       {i \in DOMAIN request.items.v : AnsweredMessages(p, i) # <<>>})

\* the last position of a locale at which DeepL translated something, 0 if none
LastAnswered(locale) ==
  LET ps == {p \in PositionsOf(locale) : AnsweredItems(p) # <<>>}
  IN IF ps = {} THEN 0 ELSE CHOOSE p \in ps : \A q \in ps : q <= p

\* every call made for the locale was refused as an unsupported language
UnsupportedLocale(locale) ==
  \A p \in PositionsOf(locale) :
    /\ Processed(p)
    /\ CallsAt(p) # {}
    /\ \A k \in CallsAt(p) : calls[k].reply = LanguageNotSupported

\* C11: with DeepL selected, a requested locale for which every call was
\* refused as unsupported never fails the request and is absent from results;
\* when no other locale fails, the response has status 200 and every other
\* requested locale has exactly the items its own calls were answered with.
C11_LocaleSkip ==
  (translationClient # Undefined /\ translationClient.type = DeepLId)
    => \A locale \in RequestedTargets :
         UnsupportedLocale(locale)
           => /\ fatalAt \notin PositionsOf(locale)
              /\ locale \notin DOMAIN results
              /\ (Done /\ fatalAt = 0)
                   => /\ response.statusCode = Num(200)
                      /\ response.body.status = Num(200)
                      /\ locale \notin DOMAIN response.body.results
                      /\ \A other \in RequestedTargets \ {locale} :
                           IF LastAnswered(other) = 0
                             THEN other \notin DOMAIN response.body.results
                             ELSE /\ other \in DOMAIN response.body.results
                                  /\ response.body.results[other] =
                                       AnsweredItems(LastAnswered(other))

\* fr-FR refused for both items, th-TH translated in full after it
C11_Witness ==
  /\ Done
  /\ translationClient # Undefined /\ translationClient.type = DeepLId
  /\ request.targetLocales = Arr(<<FR, TH>>)
  /\ request.items = Arr(TwoItems)
  /\ UnsupportedLocale(FR)
  /\ Cardinality(CallsAt(1)) = 2
  /\ response.statusCode = Num(200)
  /\ DOMAIN response.body.results = {TH}
  /\ Len(response.body.results[TH]) = 2
  /\ Len(response.body.results[TH][1].messages) = 2
\* C12 as stated: in every success response, for every backend, no key of
\* results maps to an empty sequence of items.
C12_NoEmptyEntry ==
  (CarriesResults /\ response.statusCode = Num(200))
    => \A locale \in DOMAIN response.body.results :
         Len(response.body.results[locale]) > 0
\* a is b with some elements left out, the others in their order
RECURSIVE IsSubsequence(_, _)
IsSubsequence(a, b) ==
  IF a = <<>> THEN TRUE
  ELSE IF b = <<>> THEN FALSE
  ELSE IF a[1] = b[1] THEN IsSubsequence(Tail(a), Tail(b))
  ELSE IsSubsequence(a, Tail(b))

IdsOf(elements) == [i \in DOMAIN elements |-> elements[i].id]

\* C13 as stated: for every backend and every locale of a results map, the
\* item ids are ids of request items in request order, and the message ids of
\* each item are ids of messages of the request item with that id, in request
\* order.
C13_IdentifierPreservation ==
  CarriesResults
    => \A locale \in DOMAIN response.body.results :
         LET translated == response.body.results[locale]
         IN /\ IsSubsequence(IdsOf(translated), IdsOf(request.items.v))
            /\ \A i \in DOMAIN translated :
                 \E j \in DOMAIN request.items.v :
                   /\ request.items.v[j].id = translated[i].id
                   /\ IsSubsequence(IdsOf(translated[i].messages),
                                    IdsOf(request.items.v[j].messages))
\* C14: once the processing of the locale at a position has raised a fatal
\* error, main has returned that error, nothing more can happen, and no call
\* was made for a position after it.
C14_FailAndAbort ==
  fatalAt # 0
    => /\ Done
       /\ CarriesError /\ ~CarriesResults
       /\ ~ENABLED Next
       /\ li = fatalAt
       /\ \A k \in DOMAIN calls : calls[k].pos <= fatalAt
       /\ calls[Len(calls)].pos = fatalAt

\* the first of two requested locales failed
C14_Witness ==
  /\ Done
  /\ fatalAt = 1
  /\ Len(request.targetLocales.v) = 2
  /\ calls # <<>>
\* the content of the first choice of a chat completion, undefined if none
FirstChoiceContent(reply) ==
  LET choices == reply.value.choices.v
  IN IF Len(choices) = 0 THEN Undefined ELSE choices[1].message.content

\* the class of a chat-completion reply, in the order of the claim; 0 when the
\* reply is in none of the three classes
ReplyClass(reply) ==
  IF reply.threw \/ ~IsArray(Get(reply.value, "choices")) THEN 0
  ELSE IF FirstChoiceContent(reply) \in {Undefined, Null, Str(<<>>)} THEN 1
  ELSE IF "json" \notin DOMAIN FirstChoiceContent(reply) THEN 2
  ELSE IF \/ FirstChoiceContent(reply).json = Null
          \/ "targetLocale" \notin DOMAIN FirstChoiceContent(reply).json
          \/ "items" \notin DOMAIN FirstChoiceContent(reply).json THEN 3
  ELSE 0

ClassMessage(class) ==
  CASE class = 1 -> Str(<<"Empty response from translation service">>)
    [] class = 2 -> Str(<<"Invalid JSON response from translation service">>)
    [] class = 3 -> Str(<<"Invalid response format from translation service">>)

\* C15 as stated: for openai and azure, a reply with no content in the first
\* choice, with content that is not JSON, or with a parsed value lacking
\* targetLocale or items ends the request at once, with no results and with
\* the error getTranslation builds for status 500 and the message of its class.
C15_ReplyClassification ==
  \A k \in DOMAIN calls :
    (calls[k].api \in {OpenAIId, AzureId} /\ ReplyClass(calls[k].reply) # 0)
      => /\ Done
         /\ k = Len(calls)
         /\ ~CarriesResults
         /\ Get(response, "body") =
              errorResponse(500, ClassMessage(ReplyClass(calls[k].reply)))
\* the calls of a second invocation repeat those of the first, in order
RepeatsCalls ==
  /\ Len(calls) <= Len(first.calls)
  /\ calls = SubSeq(first.calls, 1, Len(calls))

\* C16: a request handed over as a JSON text in __ow_body and the same
\* request handed over as structured fields, with the same configuration and
\* the same backend answers, give the same backend calls and the same
\* response (the validation outcome included).
C16_EitherShape ==
  (run = 2 /\ params # first.params)
    => /\ RepeatsCalls
       /\ Done => (calls = first.calls /\ response = first.response)

\* fields first, the JSON body second, both translated
C16_Witness ==
  /\ run = 2
  /\ Done
  /\ ~Truthy(first.params.__ow_body)
  /\ Truthy(params.__ow_body)
  /\ calls # <<>>
  /\ CarriesResults

RefusedCalls ==
  {k \in DOMAIN calls : calls[k].api = DeepLId /\ calls[k].reply = LanguageNotSupported}

\* the item at index i of the request has been dealt with at position p
ItemDone(p, i) == p < li \/ (p = li /\ i < ii)

\* C18 as stated: after DeepL refuses one message of an item as an unsupported
\* language, each later message of the same item is still sent to DeepL.
C18_Original ==
  \A k \in RefusedCalls :
    ItemDone(calls[k].pos, calls[k].item)
      => \A m \in DOMAIN request.items.v[calls[k].item].messages :
           m > calls[k].msg
             => \E j \in DOMAIN calls :
                  /\ calls[j].pos = calls[k].pos
                  /\ calls[j].item = calls[k].item
                  /\ calls[j].msg = m

\* what the item at index i has put into translatedItems
Contribution(i) ==
  {translatedItems[j] : j \in {n \in DOMAIN translatedItems :
                                 translatedItems[n].id = request.items.v[i].id}}

\* C18 amended: after DeepL refuses one message of an item as an unsupported
\* language, no later message of that item is sent, and the item contributes
\* exactly the messages translated before the refused one (nothing when the
\* first message was refused).
C18_RestOfItemSkipped ==
  \A k \in RefusedCalls :
    LET p == calls[k].pos
        i == calls[k].item
        m == calls[k].msg
    IN /\ \A j \in DOMAIN calls :
            (calls[j].pos = p /\ calls[j].item = i) => calls[j].msg <= m
       /\ Len(AnsweredMessages(p, i)) = m - 1
       /\ (p = li /\ i < ii /\ pc \in {"deepl_items", "deepl_messages"})
            => Contribution(i) =
                 IF m = 1 THEN {}
                 ELSE {Item(request.items.v[i].id, AnsweredMessages(p, i))}

\* the second message of the first item refused, the first one translated,
\* and the item closed with that one message
C18_Witness ==
  /\ pc = "deepl_items"
  /\ ii = 2
  /\ \E k \in RefusedCalls : calls[k].pos = li /\ calls[k].item = 1 /\ calls[k].msg = 2
  /\ Len(translatedItems) = 1
  /\ Len(translatedItems[1].messages) = 1
\* C19 as stated: once DeepL has refused a call for a target locale as an
\* unsupported language, no further call is issued for that locale, neither
\* for the remaining messages nor for the remaining items.
C19_NoCallAfterRefusal ==
  \A k \in RefusedCalls :
    \A j \in DOMAIN calls : j > k => calls[j].pos # calls[k].pos
\* the calls to Google Translate that failed
FailedGoogleCalls ==
  {k \in DOMAIN calls : calls[k].api = GoogleId /\ calls[k].reply.threw}

\* C20 as stated: with Google, a failed call aborts the processing of its
\* locale only, the target locales after the failing one are still processed.
C20_Original ==
  \A k \in FailedGoogleCalls :
    (Done /\ calls[k].pos < Len(request.targetLocales.v))
      => \E j \in DOMAIN calls : calls[j].pos > calls[k].pos

\* C20 amended: with Google, a failed call aborts the whole request: it is
\* the last call made, no locale after the failing one is processed, and main
\* returns the error 'Translation failed for locale <locale>: <message>'
\* without results.
C20_GoogleFailureAborts ==
  \A k \in FailedGoogleCalls :
    /\ Done
    /\ k = Len(calls)
    /\ fatalAt = calls[k].pos
    /\ li = calls[k].pos
    /\ ~CarriesResults
    /\ ErrorMessageOf(response) =
         Str(<<"Translation failed for locale ">>
             \o request.targetLocales.v[calls[k].pos].v \o <<": ">>
             \o calls[k].reply.error.message.v)

\* Google fails a call for the first of two locales, after which nothing is sent
C20_Witness ==
  /\ Done
  /\ FailedGoogleCalls # {}
  /\ fatalAt = 1
  /\ Len(request.targetLocales.v) = 2
  /\ request.targetLocales.v[1] # request.targetLocales.v[2]
\* the parsed value of a chat-completion reply that passes the three tests of
\* C15 and carries an array of items; undefined for any other reply
ParsedItemsReply(reply) ==
  IF reply.threw \/ ~IsArray(Get(reply.value, "choices")) THEN Undefined
  ELSE IF ReplyClass(reply) # 0 THEN Undefined
  ELSE IF ~IsArray(FirstChoiceContent(reply).json.items) THEN Undefined
  ELSE FirstChoiceContent(reply).json

\* the reply has another number of items than the request, or one of its items
\* another number of messages than the request item at the same index
MismatchedCounts(parsed) ==
  \/ Len(parsed.items.v) # Len(request.items.v)
  \/ \E i \in DOMAIN parsed.items.v :
       /\ i \in DOMAIN request.items.v
       /\ Len(parsed.items.v[i].messages) # Len(request.items.v[i].messages)

\* C21 as stated: for openai and azure, a parsed reply whose item or message
\* counts differ from the request ends the request with the format error, and
\* the locale of the call gets no entry in results.
C21_MismatchedCountsRejected ==
  \A k \in DOMAIN calls :
    (/\ calls[k].api \in {OpenAIId, AzureId}
     /\ ParsedItemsReply(calls[k].reply) # Undefined
     /\ MismatchedCounts(ParsedItemsReply(calls[k].reply)))
      => /\ Done
         /\ ErrorMessageOf(response) =
              Str(<<"Invalid response format from translation service">>)
         /\ request.targetLocales.v[calls[k].pos] \notin DOMAIN results
\* String.prototype.includes for a needle of several units
ContainsUnits(haystack, needle) ==
  \E i \in 1..(Len(haystack) - Len(needle) + 1) :
    SubSeq(haystack, i, i + Len(needle) - 1) = needle

\* the calls that failed and were not taken for a refused language by DeepL
FailedCalls ==
  {k \in DOMAIN calls : calls[k].reply.threw /\ k \notin RefusedCalls}

\* C22 as stated: after a failed backend call the error message returned
\* names both the backend identifier and the target locale being processed.
C22_Original ==
  \A k \in FailedCalls :
    /\ IsString(ErrorMessageOf(response))
    /\ ContainsUnits(ErrorMessageOf(response).v, translationClient.type.v)
    /\ ContainsUnits(ErrorMessageOf(response).v,
                     request.targetLocales.v[calls[k].pos].v)

\* C22 amended: after a failed backend call the error message returned is
\* '<backend> API call failed: <message>' for openai and azure, naming the
\* backend and not the locale, and 'Translation failed for locale <locale>:
\* <message>' for google and deepl, naming the locale and not the backend.
C22_BackendOrLocaleNamed ==
  \A k \in FailedCalls :
    LET locale == request.targetLocales.v[calls[k].pos]
        type == translationClient.type
        message == ErrorMessageOf(response)
    IN /\ Done
       /\ IsString(message)
       /\ IF type \in {OpenAIId, AzureId}
            THEN /\ message = Str(type.v \o <<" API call failed: ">>
                                  \o calls[k].reply.error.message.v)
                 /\ ContainsUnits(message.v, type.v)
                 /\ ~ContainsUnits(message.v, locale.v)
            ELSE /\ message = Str(<<"Translation failed for locale ">> \o locale.v
                                  \o <<": ">> \o calls[k].reply.error.message.v)
                 /\ ContainsUnits(message.v, locale.v)
                 /\ ~ContainsUnits(message.v, type.v)

\* the call of openai for the second locale failed
C22_Witness ==
  /\ Done
  /\ translationClient # Undefined /\ translationClient.type = OpenAIId
  /\ FailedCalls # {}
  /\ fatalAt = 2
\* call j comes before call k in the order of positions, then items, then
\* messages
Before(j, k) ==
  \/ calls[j].pos < calls[k].pos
  \/ /\ calls[j].pos = calls[k].pos
     /\ \/ calls[j].item < calls[k].item
        \/ calls[j].item = calls[k].item /\ calls[j].msg < calls[k].msg

\* the target a call names for a locale, spelled out per backend
ExpectedTarget(api, locale) ==
  CASE api = GoogleId ->
         (CASE locale = FR -> Str(<<"f", "r">>)
            [] locale = TH -> Str(<<"t", "h">>)
            [] locale = EN -> Str(<<"e", "n">>))
    [] api = DeepLId ->
         (CASE locale = FR -> Str(<<"F", "R">>)
            [] locale = TH -> Str(<<"T", "H">>)
            [] locale = EN -> Str(<<"E", "N">>))
    [] OTHER -> locale

\* C23: the log of calls, each entered with its answer before the next call
\* is issued, runs through the positions of targetLocales in increasing
\* order and, within a position, through the items and then the messages in
\* request order; every call is for the locale at its position and, for
\* google and deepl, carries the text of its message; no call is for a
\* position beyond the one being processed.
C23_SequentialOrder ==
  /\ \A j, k \in DOMAIN calls : j < k => Before(j, k)
  /\ \A k \in DOMAIN calls :
       /\ calls[k].pos \in DOMAIN request.targetLocales.v
       /\ calls[k].pos <= li
       /\ calls[k].target =
            ExpectedTarget(calls[k].api, request.targetLocales.v[calls[k].pos])
       /\ calls[k].api \in {GoogleId, DeepLId}
            => /\ calls[k].item \in DOMAIN request.items.v
               /\ calls[k].msg \in DOMAIN request.items.v[calls[k].item].messages
               /\ calls[k].sent =
                    request.items.v[calls[k].item].messages[calls[k].msg].value

\* google translated three messages for each of two locales
C23_Witness ==
  /\ Done
  /\ translationClient # Undefined /\ translationClient.type = GoogleId
  /\ Len(calls) = 6
  /\ calls[3].pos = 1 /\ calls[3].item = 2
  /\ calls[4].pos = 2 /\ calls[4].item = 1 /\ calls[4].msg = 1
\* C24: openai and azure issue exactly one call for each processed position of
\* targetLocales, carrying the whole item set, and none for a position not yet
\* reached; google and deepl issue at most one call per position, item and
\* message; so no call, failed or not, is ever issued a second time.
C24_NoRetryOneCallPerLocale ==
  translationClient # Undefined
    => /\ \A j, k \in DOMAIN calls :
            (/\ calls[j].pos = calls[k].pos
             /\ calls[j].item = calls[k].item
             /\ calls[j].msg = calls[k].msg) => j = k
       /\ translationClient.type \in {OpenAIId, AzureId}
            => \A p \in DOMAIN request.targetLocales.v :
                 /\ Cardinality(CallsAt(p)) <= 1
                 /\ Processed(p) => Cardinality(CallsAt(p)) = 1
                 /\ p > li => CallsAt(p) = {}
                 /\ \A k \in CallsAt(p) :
                      /\ calls[k].sent.json.items = request.items
                      /\ calls[k].sent.json.targetLocale = request.targetLocales.v[p]

\* azure was called once for each of two locales, the second call failing
C24_Witness ==
  /\ Done
  /\ translationClient # Undefined /\ translationClient.type = AzureId
  /\ Len(request.targetLocales.v) = 2
  /\ Len(calls) = 2
  /\ calls[2].reply.threw
  /\ Len(request.items.v) = 2

\* the calls to DeepL that failed otherwise than by a language support error:
\* the call was rejected with another error, or its reply has no translations
\* array or an empty one
FaultyDeepLCalls ==
  {k \in DOMAIN calls :
     /\ calls[k].api = DeepLId
     /\ IF calls[k].reply.threw
          THEN ~includes(calls[k].reply.error.message, "not supported by DeepL")
          ELSE LET translations == Get(calls[k].reply.value.data, "translations")
               IN ~IsArray(translations) \/ Len(translations.v) = 0}

\* the message of the error a faulty DeepL call raises
FaultyDeepLMessage(reply) ==
  IF reply.threw THEN reply.error.message
  ELSE Str(<<"Invalid response structure from DeepL API">>)

\* C25: with DeepL, a call that is rejected with an error other than a
\* language support error, or whose reply has a missing or empty translations
\* array, is fatal: it is the last call made, main has returned the error
\* 'Translation failed for locale <locale>: <message>' without results, as for
\* a failed Google call, and the locales completed before it are not returned.
C25_DeepLOtherFailuresFatal ==
  \A k \in FaultyDeepLCalls :
    /\ Done
    /\ k = Len(calls)
    /\ fatalAt = calls[k].pos
    /\ li = calls[k].pos
    /\ CarriesError /\ ~CarriesResults
    /\ ~ENABLED Next
    /\ ErrorMessageOf(response) =
         Str(<<"Translation failed for locale ">>
             \o request.targetLocales.v[calls[k].pos].v \o <<": ">>
             \o FaultyDeepLMessage(calls[k].reply).v)

\* DeepL completed the first locale and answered a call for the second with
\* an empty translations array
C25_Witness ==
  /\ Done
  /\ FaultyDeepLCalls # {}
  /\ ~calls[Len(calls)].reply.threw
  /\ fatalAt = 2
  /\ DOMAIN results # {}
  /\ RefusedCalls = {}

\* C26: a request with both a configuration fault and a request fault ends
\* with the configuration error and statusCode 500, before the request is
\* extracted, never with a validation error; and an execution ends in a
\* validation error only when the configuration of the selected backend is
\* complete.
C26_ConfigurationBeforeRequest ==
  LET envError == validateEnvironment(params)
      fault == ~envError.threw /\ envError.value # Null
      passes == ~envError.threw /\ envError.value = Null
  IN /\ (pc # "validateEnvironment" /\ fault /\ ~RequestPasses)
          => /\ Done
             /\ response = [statusCode |-> Num(500), body |-> envError.value.error.body]
             /\ ErrorMessageOf(response) \notin ValidationMessages
             /\ Get(response, "statusCode") # Num(400)
             /\ request = Undefined
     /\ EndsInValidationError => passes
     /\ request # Undefined => passes

\* a required key of the selected backend is missing and the request, given
\* as fields, has no items
C26_Witness ==
  /\ Done
  /\ MissingKeys # {}
  /\ ~RequestPasses
  /\ ~Truthy(params.__ow_body)
  /\ params.items = Arr(<<>>)
  /\ Get(response, "statusCode") = Num(500)

\* the chat-completion calls whose reply was parsed and processed with success
StoredCalls ==
  {k \in DOMAIN calls :
     /\ calls[k].api \in {OpenAIId, AzureId}
     /\ ParsedItemsReply(calls[k].reply) # Undefined}

\* the locale requested at the position a call was made for
RequestedAt(k) == request.targetLocales.v[calls[k].pos]

\* C27: for openai and azure, the items of each reply parsed with success are
\* stored under the target locale requested at the position of the call,
\* whatever targetLocale the reply echoes: the keys of results are exactly the
\* requested locales of those calls, and each holds the items of the latest
\* such call made for it.
C27_StoredUnderRequestedLocale ==
  (translationClient # Undefined /\ translationClient.type \in {OpenAIId, AzureId})
    => LET parsed == [k \in DOMAIN calls |-> ParsedItemsReply(calls[k].reply)]
           stored == {k \in DOMAIN calls : parsed[k] # Undefined}
           key == [k \in stored |-> RequestedAt(k)]
       IN /\ DOMAIN results = {key[k] : k \in stored}
          /\ \A k \in stored :
               /\ key[k] \in DOMAIN results
               /\ (\A j \in stored : key[j] = key[k] => j <= k)
                    => results[key[k]] = parsed[k].items.v
               /\ parsed[k].targetLocale \in DOMAIN results
                    => \E j \in stored : key[j] = parsed[k].targetLocale

\* a reply that echoes de-DE for a requested fr-FR is returned under fr-FR
C27_Witness ==
  /\ CarriesResults
  /\ \E k \in StoredCalls :
       /\ ParsedItemsReply(calls[k].reply).targetLocale = DE
       /\ RequestedAt(k) = FR
       /\ ParsedItemsReply(calls[k].reply).items.v # <<>>
       /\ response.body.results[FR] = ParsedItemsReply(calls[k].reply).items.v
  /\ DE \notin DOMAIN response.body.results
====
